---- MODULE Spec2Model ----
(***************************************************************************)
(* Model of python/shotgun_model/overlaywidget.py: the OverlayWidget mode  *)
(* state machine, its spinner timer, its paintEvent, and the               *)
(* ResizeEventFilter that relays the parent's resize events.               *)
(*                                                                         *)
(* Everything runs on the single UI event loop, so every handler is one    *)
(* atomic action.  The toolkit (Qt) is the environment: it expires the     *)
(* timer, delivers events to the parent and asks the overlay to paint.     *)
(***************************************************************************)
EXTENDS Integers, Sequences, FiniteSets, TLC

\* ---- program constants (class OverlayWidget) ----
MODE_OFF == 0
MODE_SPIN == 1
MODE_ERROR == 2
MODE_INFO_TEXT == 3
MODE_INFO_PIXMAP == 4

\* the value at which on_animation wraps _spin_angle back to 0
SPIN_WRAP == 90
\* interval handed to QTimer.start by start_spin, in ms
TIMER_INTERVAL == 40
\* paintEvent: start_angle = (0 + spin_angle) * 4 * 16, span_angle = 340 * 16
ANGLE_STEP == 4
ANGLE_UNITS == 16
SPAN_DEGREES == 340

\* Python's None, the constructor's value of _message and _message_pixmap
None == "None"
\* no interval: the timer is not running
NoInterval == 0
\* no arc drawn
NoAngle == -1

\* ---- bounds ----
\* ticks counted after one start_spin() before the model stops ticking
MaxTicks == 3
\* Resize events the toolkit may hold back for the parent at one time
MaxPending == 1
\* the widths a surface can take; its height is MaxW + 1 - width
MaxW == 2

\* ---- inputs ----
Texts == {"x", "y"}
Pixmaps == {"p"}
Sizes == {<<w, MaxW + 1 - w>> : w \in 1..MaxW}
\* QEvent types seen by the filter: Resize and any other type
EventTypes == {"Resize", "Other"}
\* geometry of a child QWidget before anybody resizes it
InitialSize == <<100, 30>>

VARIABLES
  mode,            \* self._mode
  timer_interval,  \* self._timer: NoInterval when stopped, else its interval
  timer_due,       \* self._timer: its interval has run out, timeout not yet delivered
  visible,         \* QWidget visibility of the overlay
  spin_angle,      \* self._spin_angle
  message,         \* self._message
  message_pixmap,  \* self._message_pixmap
  size,            \* the overlay's size
  parent_size,     \* self._parent.size()
  pending_resizes, \* Resize events of the parent the toolkit has yet to deliver
  painted,         \* what the handler that ran last drew (Blank: nothing)
  step,            \* the handler that ran last
  prev_mode,       \* self._mode before the handler that ran last
  ticks,           \* on_animation calls since the last public call
  call,            \* the last public call: its name and its argument
  angle_at_call,   \* self._spin_angle when the last public call was made
  redraw,          \* the redraw the handler that ran last asked for
  filtered,        \* what eventFilter did, when it is the handler that ran last
  pc               \* inside a public call: the statement to run next (0: in none)

overlay == <<mode, timer_interval, visible, spin_angle, message, message_pixmap>>
vars == <<mode, timer_interval, timer_due, visible, spin_angle, message, message_pixmap,
          size, parent_size, pending_resizes, painted, step,
          prev_mode, ticks, call, angle_at_call, redraw, filtered, pc>>

Modes == {MODE_OFF, MODE_SPIN, MODE_ERROR, MODE_INFO_TEXT, MODE_INFO_PIXMAP}
Calls == {"start_spin", "show_error_message", "show_message",
          "show_message_pixmap", "hide"}

\* self._timer.isActive()
timer_active == timer_interval # NoInterval

\* ---- paintEvent: the draw output as a function of the fields it reads ----
Blank ==
  [backdrop |-> FALSE, kind |-> "none", text |-> None, pixmap |-> None,
   start_angle |-> NoAngle, span_angle |-> NoAngle, reads |-> {}]

\* paintEvent without the early return of Off mode
DrawNoEarlyReturn(m, msg, pix, ang) ==
  IF m = MODE_SPIN THEN
    [Blank EXCEPT !.backdrop = TRUE, !.kind = "spin",
                  !.start_angle = (0 + ang) * ANGLE_STEP * ANGLE_UNITS,
                  !.span_angle = SPAN_DEGREES * ANGLE_UNITS,
                  !.reads = {"_spin_angle"}]
  ELSE IF m = MODE_INFO_TEXT THEN
    [Blank EXCEPT !.backdrop = TRUE, !.kind = "info_text", !.text = msg,
                  !.reads = {"_message"}]
  ELSE IF m = MODE_ERROR THEN
    [Blank EXCEPT !.backdrop = TRUE, !.kind = "error_text", !.text = msg,
                  !.reads = {"_message"}]
  ELSE IF m = MODE_INFO_PIXMAP THEN
    [Blank EXCEPT !.backdrop = TRUE, !.kind = "pixmap", !.pixmap = pix,
                  !.reads = {"_message_pixmap"}]
  ELSE [Blank EXCEPT !.backdrop = TRUE]

\* paintEvent with the pens of its two text branches exchanged
DrawPensSwapped(m, msg, pix, ang) ==
  IF m = MODE_OFF THEN Blank
  ELSE IF m = MODE_SPIN THEN
    [Blank EXCEPT !.backdrop = TRUE, !.kind = "spin",
                  !.start_angle = (0 + ang) * ANGLE_STEP * ANGLE_UNITS,
                  !.span_angle = SPAN_DEGREES * ANGLE_UNITS,
                  !.reads = {"_spin_angle"}]
  ELSE IF m = MODE_INFO_TEXT THEN
    [Blank EXCEPT !.backdrop = TRUE, !.kind = "error_text", !.text = msg,
                  !.reads = {"_message"}]
  ELSE IF m = MODE_ERROR THEN
    [Blank EXCEPT !.backdrop = TRUE, !.kind = "info_text", !.text = msg,
                  !.reads = {"_message"}]
  ELSE IF m = MODE_INFO_PIXMAP THEN
    [Blank EXCEPT !.backdrop = TRUE, !.kind = "pixmap", !.pixmap = pix,
                  !.reads = {"_message_pixmap"}]
  ELSE [Blank EXCEPT !.backdrop = TRUE]

Draw(m, msg, pix, ang) ==
  IF m = MODE_OFF THEN Blank
  ELSE IF m = MODE_SPIN THEN
    [Blank EXCEPT !.backdrop = TRUE, !.kind = "spin",
                  !.start_angle = (0 + ang) * ANGLE_STEP * ANGLE_UNITS,
                  !.span_angle = SPAN_DEGREES * ANGLE_UNITS,
                  !.reads = {"_spin_angle"}]
  ELSE IF m = MODE_INFO_TEXT THEN
    [Blank EXCEPT !.backdrop = TRUE, !.kind = "info_text", !.text = msg,
                  !.reads = {"_message"}]
  ELSE IF m = MODE_ERROR THEN
    [Blank EXCEPT !.backdrop = TRUE, !.kind = "error_text", !.text = msg,
                  !.reads = {"_message"}]
  ELSE IF m = MODE_INFO_PIXMAP THEN
    [Blank EXCEPT !.backdrop = TRUE, !.kind = "pixmap", !.pixmap = pix,
                  !.reads = {"_message_pixmap"}]
  ELSE [Blank EXCEPT !.backdrop = TRUE]

\* self.repaint(): the toolkit calls paintEvent at once on a visible widget
Repaint(vis, m, msg, pix, ang, old) ==
  IF vis THEN Draw(m, msg, pix, ang) ELSE old

\* self.setVisible(True): the toolkit paints a widget that was hidden once it
\* is shown, and does nothing to one that is visible already
Shown(vis) == IF vis THEN "none" ELSE "shown"

\* eventFilter has not run
Unfiltered == [type |-> None, emitted |-> 0, result |-> FALSE]

\* the wrap test off by one: 90 is let through
NextAngleLate(a) == IF a + 1 > SPIN_WRAP THEN 0 ELSE a + 1

\* on_animation: the new spin angle
NextAngle(a) == IF a + 1 = SPIN_WRAP THEN 0 ELSE a + 1

\* ---- construction ----
Init ==
  /\ mode = MODE_OFF
  /\ timer_interval = NoInterval
  /\ timer_due = FALSE
  /\ visible = FALSE
  /\ spin_angle = 0
  /\ message = None
  /\ message_pixmap = None
  /\ size = InitialSize
  /\ parent_size \in Sizes
  /\ pending_resizes = 0
  /\ painted = Blank
  /\ step = "__init__"
  /\ prev_mode = MODE_OFF
  /\ ticks = 0
  /\ call = [name |-> "__init__", arg |-> None]
  /\ angle_at_call = 0
  /\ redraw = "none"
  /\ filtered = Unfiltered
  /\ pc = 0

\* what every public call records about itself
Called(name, arg) ==
  /\ step' = name
  /\ call' = [name |-> name, arg |-> arg]
  /\ prev_mode' = mode
  /\ ticks' = 0
  /\ angle_at_call' = spin_angle
  /\ filtered' = Unfiltered

\* ---- public interface ----
\* start_spin that also fits the overlay to its parent
start_spin_fits_parent ==
  /\ timer_interval' = TIMER_INTERVAL
  /\ timer_due' = FALSE
  /\ visible' = TRUE
  /\ mode' = MODE_SPIN
  /\ size' = parent_size
  /\ redraw' = Shown(visible)
  /\ Called("start_spin", None)
  /\ painted' = Blank
  /\ UNCHANGED <<pc, spin_angle, message, message_pixmap,
                 parent_size, pending_resizes>>

start_spin ==
  /\ timer_interval' = TIMER_INTERVAL
  /\ timer_due' = FALSE
  /\ visible' = TRUE
  /\ mode' = MODE_SPIN
  /\ redraw' = Shown(visible)
  /\ Called("start_spin", None)
  /\ painted' = Blank
  /\ UNCHANGED <<pc, spin_angle, message, message_pixmap,
                 size, parent_size, pending_resizes>>

\* show_error_message without the stop of the timer
show_error_message_timer_left(msg) ==
  /\ visible' = TRUE
  /\ message' = msg
  /\ mode' = MODE_ERROR
  /\ painted' = Repaint(visible', mode', message', message_pixmap, spin_angle, painted)
  /\ redraw' = "repaint"
  /\ Called("show_error_message", msg)
  /\ UNCHANGED <<pc, timer_interval, timer_due, spin_angle, message_pixmap,
                 size, parent_size, pending_resizes>>

\* show_error_message with repaint() ahead of the two assignments
show_error_message_repaint_first(msg) ==
  /\ timer_interval' = NoInterval
  /\ timer_due' = FALSE
  /\ visible' = TRUE
  /\ painted' = Repaint(visible', mode, message, message_pixmap, spin_angle, painted)
  /\ message' = msg
  /\ mode' = MODE_ERROR
  /\ redraw' = "repaint"
  /\ Called("show_error_message", msg)
  /\ UNCHANGED <<pc, spin_angle, message_pixmap,
                 size, parent_size, pending_resizes>>

show_error_message(msg) ==
  /\ timer_interval' = NoInterval
  /\ timer_due' = FALSE
  /\ visible' = TRUE
  /\ message' = msg
  /\ mode' = MODE_ERROR
  /\ painted' = Repaint(visible', mode', message', message_pixmap, spin_angle, painted)
  /\ redraw' = "repaint"
  /\ Called("show_error_message", msg)
  /\ UNCHANGED <<pc, spin_angle, message_pixmap,
                 size, parent_size, pending_resizes>>

\* show_message that clears the payload of the other modes
show_message_clears_pixmap(msg) ==
  /\ timer_interval' = NoInterval
  /\ timer_due' = FALSE
  /\ visible' = TRUE
  /\ message' = msg
  /\ message_pixmap' = None
  /\ mode' = MODE_INFO_TEXT
  /\ painted' = Repaint(visible', mode', message', message_pixmap', spin_angle, painted)
  /\ redraw' = "repaint"
  /\ Called("show_message", msg)
  /\ UNCHANGED <<pc, spin_angle,
                 size, parent_size, pending_resizes>>

\* show_message without the stop of the timer
show_message_timer_left(msg) ==
  /\ visible' = TRUE
  /\ message' = msg
  /\ mode' = MODE_INFO_TEXT
  /\ painted' = Repaint(visible', mode', message', message_pixmap, spin_angle, painted)
  /\ redraw' = "repaint"
  /\ Called("show_message", msg)
  /\ UNCHANGED <<pc, timer_interval, timer_due, spin_angle, message_pixmap,
                 size, parent_size, pending_resizes>>

show_message(msg) ==
  /\ timer_interval' = NoInterval
  /\ timer_due' = FALSE
  /\ visible' = TRUE
  /\ message' = msg
  /\ mode' = MODE_INFO_TEXT
  /\ painted' = Repaint(visible', mode', message', message_pixmap, spin_angle, painted)
  /\ redraw' = "repaint"
  /\ Called("show_message", msg)
  /\ UNCHANGED <<pc, spin_angle, message_pixmap,
                 size, parent_size, pending_resizes>>

\* show_message_pixmap with the mode of show_message
show_message_pixmap_as_text(pixmap) ==
  /\ timer_interval' = NoInterval
  /\ timer_due' = FALSE
  /\ visible' = TRUE
  /\ message_pixmap' = pixmap
  /\ mode' = MODE_INFO_TEXT
  /\ painted' = Repaint(visible', mode', message, message_pixmap', spin_angle, painted)
  /\ redraw' = "repaint"
  /\ Called("show_message_pixmap", pixmap)
  /\ UNCHANGED <<pc, spin_angle, message,
                 size, parent_size, pending_resizes>>

show_message_pixmap(pixmap) ==
  /\ timer_interval' = NoInterval
  /\ timer_due' = FALSE
  /\ visible' = TRUE
  /\ message_pixmap' = pixmap
  /\ mode' = MODE_INFO_PIXMAP
  /\ painted' = Repaint(visible', mode', message, message_pixmap', spin_angle, painted)
  /\ redraw' = "repaint"
  /\ Called("show_message_pixmap", pixmap)
  /\ UNCHANGED <<pc, spin_angle, message,
                 size, parent_size, pending_resizes>>

\* hide with the timer call of start_spin
hide_starts_timer ==
  /\ timer_interval' = TIMER_INTERVAL
  /\ timer_due' = FALSE
  /\ mode' = MODE_OFF
  /\ visible' = FALSE
  /\ redraw' = "none"
  /\ Called("hide", None)
  /\ painted' = Blank
  /\ UNCHANGED <<pc, spin_angle, message, message_pixmap,
                 size, parent_size, pending_resizes>>

\* hide without setVisible(False)
hide_left_visible ==
  /\ timer_interval' = NoInterval
  /\ timer_due' = FALSE
  /\ mode' = MODE_OFF
  /\ redraw' = "none"
  /\ Called("hide", None)
  /\ painted' = Blank
  /\ UNCHANGED <<pc, visible, spin_angle, message, message_pixmap,
                 size, parent_size, pending_resizes>>

hide ==
  /\ timer_interval' = NoInterval
  /\ timer_due' = FALSE
  /\ mode' = MODE_OFF
  /\ visible' = FALSE
  /\ redraw' = "none"
  /\ Called("hide", None)
  /\ painted' = Blank
  /\ UNCHANGED <<pc, spin_angle, message, message_pixmap,
                 size, parent_size, pending_resizes>>

\* ---- toolkit callbacks ----
\* on_animation with repaint() ahead of the wrap test
on_animation_paints_first ==
  /\ timer_active
  /\ timer_due
  /\ ticks < MaxTicks
  /\ timer_due' = FALSE
  /\ spin_angle' = NextAngle(spin_angle)
  /\ painted' = Repaint(visible, mode, message, message_pixmap, spin_angle + 1, painted)
  /\ redraw' = "repaint"
  /\ filtered' = Unfiltered
  /\ step' = "on_animation"
  /\ prev_mode' = mode
  /\ ticks' = ticks + 1
  /\ UNCHANGED <<pc, mode, timer_interval, visible, message, message_pixmap,
                 size, parent_size, pending_resizes, call, angle_at_call>>

\* the interval of the running timer runs out; the toolkit owes the overlay
\* a timeout.  QTimer.start and QTimer.stop both drop a timeout that is owed.
timeout ==
  /\ timer_active
  /\ ~timer_due
  /\ ticks < MaxTicks
  /\ timer_due' = TRUE
  /\ step' = "timeout"
  /\ prev_mode' = mode
  /\ redraw' = "none"
  /\ painted' = Blank
  /\ filtered' = Unfiltered
  /\ UNCHANGED <<pc, mode, timer_interval, visible, spin_angle, message,
                 message_pixmap, size, parent_size, pending_resizes,
                 ticks, call, angle_at_call>>

\* the toolkit delivers the timeout of the repeating timer, which runs on
on_animation ==
  /\ timer_active
  /\ timer_due
  /\ ticks < MaxTicks
  /\ timer_due' = FALSE
  /\ spin_angle' = NextAngle(spin_angle)
  /\ painted' = Repaint(visible, mode, message, message_pixmap, spin_angle', painted)
  /\ redraw' = "repaint"
  /\ filtered' = Unfiltered
  /\ step' = "on_animation"
  /\ prev_mode' = mode
  /\ ticks' = ticks + 1
  /\ UNCHANGED <<pc, mode, timer_interval, visible, message, message_pixmap,
                 size, parent_size, pending_resizes, call, angle_at_call>>

\* paintEvent that advances the animation itself
paintEvent_advances ==
  /\ spin_angle' = NextAngle(spin_angle)
  /\ painted' = Draw(mode, message, message_pixmap, spin_angle')
  /\ redraw' = "none"
  /\ filtered' = Unfiltered
  /\ step' = "paintEvent"
  /\ prev_mode' = mode
  /\ UNCHANGED <<pc, mode, timer_interval, timer_due, visible, message,
                 message_pixmap, size, parent_size, pending_resizes,
                 ticks, call, angle_at_call>>

\* the toolkit asks for a render (expose, posted paint event, grab)
paintEvent ==
  /\ painted' = Draw(mode, message, message_pixmap, spin_angle)
  /\ redraw' = "none"
  /\ filtered' = Unfiltered
  /\ step' = "paintEvent"
  /\ prev_mode' = mode
  /\ UNCHANGED <<pc, mode, timer_interval, timer_due, visible, spin_angle, message,
                 message_pixmap, size, parent_size, pending_resizes,
                 ticks, call, angle_at_call>>

\* ---- the parent and the resize relay ----
\* the parent is resized; the toolkit owes it a Resize event
parent_resize(s) ==
  /\ pending_resizes < MaxPending
  /\ s # parent_size
  /\ parent_size' = s
  /\ pending_resizes' = pending_resizes + 1
  /\ step' = "parent_resize"
  /\ prev_mode' = mode
  /\ redraw' = "none"
  /\ painted' = Blank
  /\ filtered' = Unfiltered
  /\ UNCHANGED <<pc, mode, timer_interval, timer_due, visible, spin_angle, message,
                 message_pixmap, size, ticks, call, angle_at_call>>

\* the slot without its resize
on_parent_resized_skipped(old) == old

\* the slot: self.resize(self._parent.size())
on_parent_resized(old) == parent_size

\* ResizeEventFilter.eventFilter: the number of resized signals it emits
FilterEmits(type) == IF type = "Resize" THEN 1 ELSE 0
\* eventFilter returning True once it has re-broadcast a Resize
FilterResultConsumes(type) == type = "Resize"

\* ResizeEventFilter.eventFilter: its return value (True consumes the event)
FilterResult(type) == FALSE

\* the toolkit sends the parent an event of this type, through the filter
eventFilter(type) ==
  /\ type = "Resize" => pending_resizes > 0
  /\ pending_resizes' = IF type = "Resize" THEN pending_resizes - 1
                        ELSE pending_resizes
  /\ filtered' = [type |-> type, emitted |-> FilterEmits(type),
                  result |-> FilterResult(type)]
  /\ size' = IF FilterEmits(type) > 0 THEN on_parent_resized(size) ELSE size
  /\ step' = "eventFilter"
  /\ prev_mode' = mode
  /\ redraw' = "none"
  /\ painted' = Blank
  /\ UNCHANGED <<pc, mode, timer_interval, timer_due, visible, spin_angle, message,
                 message_pixmap, parent_size, ticks, call, angle_at_call>>

Next ==
  \/ start_spin
  \/ \E msg \in Texts : show_error_message(msg)
  \/ \E msg \in Texts : show_message(msg)
  \/ \E pixmap \in Pixmaps : show_message_pixmap(pixmap)
  \/ hide
  \/ timeout
  \/ on_animation
  \/ paintEvent
  \/ \E s \in Sizes : parent_resize(s)
  \/ \E type \in EventTypes : eventFilter(type)

Spec == Init /\ [][Next]_vars

\* ---- the public calls, one statement at a time ----
\* show_* with the mode assigned ahead of the payload
BodyModeFirst(name) ==
  CASE name = "start_spin" -> <<"timer_start", "show", "mode">>
    [] name = "show_error_message" ->
         <<"timer_stop", "show", "mode", "payload", "repaint">>
    [] name = "show_message" ->
         <<"timer_stop", "show", "mode", "payload", "repaint">>
    [] name = "show_message_pixmap" ->
         <<"timer_stop", "show", "mode", "payload", "repaint">>
    [] name = "hide" -> <<"timer_stop", "mode", "hide">>

\* the statements of each public call, in source order
Body(name) ==
  CASE name = "start_spin" -> <<"timer_start", "show", "mode">>
    [] name = "show_error_message" ->
         <<"timer_stop", "show", "payload", "mode", "repaint">>
    [] name = "show_message" ->
         <<"timer_stop", "show", "payload", "mode", "repaint">>
    [] name = "show_message_pixmap" ->
         <<"timer_stop", "show", "payload", "mode", "repaint">>
    [] name = "hide" -> <<"timer_stop", "mode", "hide">>

\* the mode constant each public call assigns
ModeOf(name) ==
  CASE name = "start_spin" -> MODE_SPIN
    [] name = "show_error_message" -> MODE_ERROR
    [] name = "show_message" -> MODE_INFO_TEXT
    [] name = "show_message_pixmap" -> MODE_INFO_PIXMAP
    [] name = "hide" -> MODE_OFF

\* the arguments a public call can be given
ArgsOf(name) ==
  IF name \in {"show_error_message", "show_message"} THEN Texts
  ELSE IF name = "show_message_pixmap" THEN Pixmaps
  ELSE {None}

\* a public call is entered
begin(name, arg) ==
  /\ pc = 0
  /\ pc' = 1
  /\ Called(name, arg)
  /\ redraw' = "none"
  /\ painted' = Blank
  /\ UNCHANGED <<mode, timer_interval, timer_due, visible, spin_angle,
                 message, message_pixmap, size, parent_size, pending_resizes>>

\* the next statement of the public call that was entered
statement ==
  /\ pc > 0
  /\ LET kind == Body(call.name)[pc] IN
       /\ timer_interval' = IF kind = "timer_start" THEN TIMER_INTERVAL
                            ELSE IF kind = "timer_stop" THEN NoInterval
                            ELSE timer_interval
       /\ timer_due' = IF kind \in {"timer_start", "timer_stop"} THEN FALSE
                       ELSE timer_due
       /\ visible' = IF kind = "show" THEN TRUE
                     ELSE IF kind = "hide" THEN FALSE
                     ELSE visible
       /\ message' = IF kind = "payload"
                        /\ call.name \in {"show_error_message", "show_message"}
                     THEN call.arg ELSE message
       /\ message_pixmap' = IF kind = "payload" /\ call.name = "show_message_pixmap"
                            THEN call.arg ELSE message_pixmap
       /\ mode' = IF kind = "mode" THEN ModeOf(call.name) ELSE mode
       /\ redraw' = IF kind = "show" THEN Shown(visible)
                    ELSE IF kind = "repaint" THEN "repaint"
                    ELSE redraw
       /\ painted' = IF kind = "repaint"
                     THEN Repaint(visible, mode, message, message_pixmap,
                                  spin_angle, painted)
                     ELSE painted
  /\ pc' = IF pc = Len(Body(call.name)) THEN 0 ELSE pc + 1
  /\ UNCHANGED <<spin_angle, size, parent_size, pending_resizes, step,
                 prev_mode, ticks, call, angle_at_call, filtered>>

NextStmt ==
  \/ \E name \in Calls : \E arg \in ArgsOf(name) : begin(name, arg)
  \/ statement
  \/ pc = 0 /\ timeout
  \/ pc = 0 /\ on_animation
  \/ pc = 0 /\ paintEvent
  \/ \E s \in Sizes : pc = 0 /\ parent_resize(s)
  \/ \E type \in EventTypes : pc = 0 /\ eventFilter(type)

\* the same program with every statement of a public call a step of its own
SpecStmt == Init /\ [][NextStmt]_vars

\* the event loop keeps running: time passes on a running timer, and a timeout
\* that is owed is delivered unless the timer is stopped or started anew first
SpecLive == Init /\ [][Next]_vars /\ WF_vars(timeout) /\ WF_vars(on_animation)

\* ---- properties ----

\* C1: after every completed call, tick and render the mode is one of the five
\* modes and the repeating timer is running if and only if the mode is
\* Spinning.
C1_TimerIffSpinning ==
  /\ mode \in Modes
  /\ timer_active <=> (mode = MODE_SPIN)

\* a call stopped a running timer: show_message() while spinning
C1_Witness ==
  /\ step = "show_message"
  /\ prev_mode = MODE_SPIN
  /\ ~timer_active

\* C2, as stated: start_spin() and then N ticks leave spin_angle = N mod 90,
\* from any reachable state.
C2_AngleIsTicksMod90 ==
  call.name = "start_spin" => spin_angle = ticks % SPIN_WRAP

\* C2, amended: start_spin() called with spin angle a and followed by N ticks
\* leaves spin_angle = (a + N) mod 90, which is N mod 90 when a = 0.
C2_AngleIsStartPlusTicksMod90 ==
  call.name = "start_spin" =>
    /\ spin_angle = (angle_at_call + ticks) % SPIN_WRAP
    /\ (angle_at_call = 0 => spin_angle = ticks % SPIN_WRAP)

\* start_spin() on a stale angle, then ticks that wrap the angle
C2_Witness ==
  /\ call.name = "start_spin"
  /\ step = "on_animation"
  /\ angle_at_call > 0
  /\ angle_at_call + ticks >= SPIN_WRAP

\* C3: each public call sets the mode that belongs to it, whatever the mode
\* was; hide() also leaves the overlay invisible, so show_message(t) followed
\* by hide() ends Off and invisible.
C3_CallSetsMode ==
  /\ call.name = "start_spin" => mode = MODE_SPIN
  /\ call.name = "show_error_message" => mode = MODE_ERROR
  /\ call.name = "show_message" => mode = MODE_INFO_TEXT
  /\ call.name = "show_message_pixmap" => mode = MODE_INFO_PIXMAP
  /\ call.name = "hide" => mode = MODE_OFF /\ ~visible

\* hide() called in InfoText mode, the mode only show_message() enters
C3_Witness ==
  /\ step = "hide"
  /\ prev_mode = MODE_INFO_TEXT
  /\ mode = MODE_OFF

\* C4: the overlay is visible if and only if its mode is not Off, and ticks,
\* renders and the parent's events leave the visibility alone.
C4_VisibleIffNotOff ==
  /\ [](visible <=> (mode # MODE_OFF))
  /\ [][step' \in {"on_animation", "paintEvent", "eventFilter", "parent_resize",
                   "timeout"}
          => visible' = visible]_vars

\* hide() made a visible overlay invisible
C4_Witness ==
  /\ step = "hide"
  /\ prev_mode # MODE_OFF
  /\ ~visible

\* C5: a render in Error or InfoText mode draws the text of the most recent
\* show_error_message/show_message call, as an error exactly when that call
\* was show_error_message.
C5_RenderDrawsLastShownText ==
  painted.kind \in {"error_text", "info_text"} =>
    /\ call.name \in {"show_error_message", "show_message"}
    /\ painted.text = call.arg
    /\ painted.reads = {"_message"}
    /\ (painted.kind = "error_text") <=> (call.name = "show_error_message")

\* show_message("y") on an overlay showing an error, and the render it makes
C5_Witness ==
  /\ step = "show_message"
  /\ prev_mode = MODE_ERROR
  /\ call.arg = "y"
  /\ painted.kind = "info_text"
  /\ painted.text = "y"

\* C6, as stated: each of the five public calls leaves a render of the new
\* mode requested when it returns.  The cases with nothing new to render are
\* granted to the claim: a call that ends in Off, and a call that leaves the
\* mode as it was.
C6_EveryCallRequestsRedraw ==
  (step \in Calls /\ visible /\ prev_mode # mode) => redraw # "none"

\* C6, amended: the three show_* calls repaint at once, after payload and mode
\* are set; start_spin() asks for nothing itself and gets a paint only from
\* the toolkit when it shows a hidden overlay; hide() asks for none.
C6_ShowCallsRepaintOthersDoNot ==
  /\ step \in {"show_error_message", "show_message", "show_message_pixmap"} =>
       /\ redraw = "repaint"
       /\ painted = Draw(mode, message, message_pixmap, spin_angle)
       /\ painted.kind \in {"error_text", "info_text"} => painted.text = call.arg
       /\ painted.kind = "pixmap" => painted.pixmap = call.arg
  /\ step = "start_spin" =>
       /\ redraw = (IF prev_mode = MODE_OFF THEN "shown" ELSE "none")
       /\ painted = Blank
  /\ step = "hide" => redraw = "none" /\ painted = Blank

\* start_spin() on an overlay that shows an error: no redraw is asked for
C6_Witness ==
  /\ step = "start_spin"
  /\ prev_mode = MODE_ERROR
  /\ visible
  /\ redraw = "none"

\* C7: each Resize notification that reaches the overlay's listener sets the
\* overlay's size to the parent's size, in every mode; with none outstanding
\* and one processed, the two sizes are equal.
C7_ResizeFollowsParent ==
  /\ [][(step' = "eventFilter" /\ filtered'.type = "Resize")
          => size' = parent_size']_vars
  /\ []((size # InitialSize /\ pending_resizes = 0) => size = parent_size)

\* a Resize of the parent processed while the overlay is Off, after calls
C7_Witness ==
  /\ step = "eventFilter"
  /\ filtered.type = "Resize"
  /\ mode = MODE_OFF
  /\ call.name = "hide"
  /\ size = parent_size

\* C8: eventFilter returns False for every event, emits resized once for a
\* Resize event and not at all for any other, which leaves the overlay's
\* size alone.
C8_FilterNeverConsumes ==
  /\ [](step = "eventFilter" =>
          /\ filtered.type \in EventTypes
          /\ filtered.result = FALSE
          /\ filtered.type = "Resize" => filtered.emitted = 1
          /\ filtered.type # "Resize" => filtered.emitted = 0)
  /\ [][(step' = "eventFilter" /\ filtered'.type # "Resize")
          => size' = size]_vars

\* the filter saw a Resize event, re-broadcast it and passed it on
C8_Witness ==
  /\ step = "eventFilter"
  /\ filtered.type = "Resize"
  /\ filtered.emitted = 1
  /\ filtered.result = FALSE

\* C9: hide() called in Off mode changes neither mode, timer, visibility,
\* spin angle, message nor message image, and leaves the timer stopped.
C9_HideIdempotent ==
  [][(mode = MODE_OFF /\ step' = "hide")
       => (overlay' = overlay /\ ~timer_active')]_vars

\* hide() called in Off mode, with payloads and a spin angle left to keep
C9_Witness ==
  /\ step = "hide"
  /\ prev_mode = MODE_OFF
  /\ spin_angle > 0
  /\ message # None
  /\ message_pixmap # None

\* C10: a render changes neither mode, message, message image, spin angle,
\* timer nor visibility, and its output is a function of those alone, so a
\* second render draws the same.
C10_RenderKeepsState ==
  /\ [][step' = "paintEvent" => overlay' = overlay]_vars
  /\ [](step = "paintEvent" =>
          painted = Draw(mode, message, message_pixmap, spin_angle))

\* a render of the spinner part way round
C10_Witness ==
  /\ step = "paintEvent"
  /\ mode = MODE_SPIN
  /\ spin_angle > 0
  /\ painted.kind = "spin"
  /\ painted.start_angle = spin_angle * ANGLE_STEP * ANGLE_UNITS

\* the handlers that render: paintEvent itself and those that call repaint()
Renderers == {"paintEvent", "on_animation", "show_error_message",
              "show_message", "show_message_pixmap"}

\* C11: on_animation runs only in Spinning mode, with the timer running: no
\* tick comes before the first start_spin() nor after a show_*() or hide().
C11_TicksOnlyWhileSpinning ==
  /\ [][step' = "on_animation" => (mode = MODE_SPIN /\ timer_active)]_vars
  /\ [](step = "on_animation" => (prev_mode = MODE_SPIN /\ mode = MODE_SPIN))
  /\ [](call.name # "start_spin" => ticks = 0)
  /\ [](call.name = "__init__" => spin_angle = 0)

\* a tick delivered to a spinning overlay that had shown an error before
C11_Witness ==
  /\ step = "on_animation"
  /\ prev_mode = MODE_SPIN
  /\ message # None
  /\ ticks > 0

\* C12: spin_angle stays within 0..89, each tick sets it to
\* (spin_angle + 1) mod 90, and no render draws from the value 90.
C12_AngleInRange ==
  /\ [](spin_angle \in 0..(SPIN_WRAP - 1))
  /\ [][step' = "on_animation"
          => spin_angle' = (spin_angle + 1) % SPIN_WRAP]_vars
  /\ [](painted.kind = "spin" =>
          /\ painted.start_angle = spin_angle * ANGLE_STEP * ANGLE_UNITS
          /\ painted.start_angle < SPIN_WRAP * ANGLE_STEP * ANGLE_UNITS)

\* the tick that wraps the angle from 89 to 0, and its repaint
C12_Witness ==
  /\ step = "on_animation"
  /\ spin_angle = 0
  /\ ticks > 0
  /\ painted.kind = "spin"
  /\ painted.start_angle = 0

\* C13: a render reads the message only in InfoText and Error mode, the
\* message image only in InfoPixmap mode, the spin angle only in Spinning
\* mode, and in Off mode reads none and draws nothing, not even the backdrop.
C13_ModeDecidesPayloadRead ==
  step \in Renderers =>
    /\ ("_message" \in painted.reads) <=> (mode \in {MODE_INFO_TEXT, MODE_ERROR})
    /\ ("_message_pixmap" \in painted.reads) <=> (mode = MODE_INFO_PIXMAP)
    /\ ("_spin_angle" \in painted.reads) <=> (mode = MODE_SPIN)
    /\ (painted.text # None) => (mode \in {MODE_INFO_TEXT, MODE_ERROR})
    /\ (painted.pixmap # None) => (mode = MODE_INFO_PIXMAP)
    /\ (painted.start_angle # NoAngle) => (mode = MODE_SPIN)
    /\ painted.backdrop <=> (mode # MODE_OFF)
    /\ (mode = MODE_OFF) => (painted = Blank)

\* a render in Off mode with a stale message, message image and spin angle
C13_Witness ==
  /\ step = "paintEvent"
  /\ mode = MODE_OFF
  /\ message # None
  /\ message_pixmap # None
  /\ spin_angle > 0
  /\ painted = Blank

\* C14: a public call assigns no payload but its own: show_error_message and
\* show_message keep the message image and the spin angle, show_message_pixmap
\* keeps the message and the spin angle, start_spin and hide keep all three;
\* only a tick changes the spin angle.
C14_CallsKeepOtherPayloads ==
  /\ [][step' \in {"show_error_message", "show_message"}
          => UNCHANGED <<message_pixmap, spin_angle>>]_vars
  /\ [][step' = "show_message_pixmap"
          => UNCHANGED <<message, spin_angle>>]_vars
  /\ [][step' \in {"start_spin", "hide"}
          => UNCHANGED <<message, message_pixmap, spin_angle>>]_vars
  /\ [][spin_angle' # spin_angle => step' = "on_animation"]_vars

\* start_spin() after a hide(): the angle of the earlier spinning period and
\* both stale payloads are still there
C14_Witness ==
  /\ step = "start_spin"
  /\ prev_mode = MODE_OFF
  /\ spin_angle > 0
  /\ angle_at_call = spin_angle
  /\ message # None
  /\ message_pixmap # None

\* C15: at every point of execution, between the statements of the public
\* calls included, Error and InfoText mode come with a message that a
\* show_error_message/show_message call has set, InfoPixmap mode with a
\* message image that show_message_pixmap has set, so that no render, the
\* one inside a show_* call included, draws the constructor's None.
C15_ModeImpliesPayloadSet ==
  /\ mode \in {MODE_ERROR, MODE_INFO_TEXT} => message \in Texts
  /\ mode = MODE_INFO_PIXMAP => message_pixmap \in Pixmaps
  /\ Draw(mode, message, message_pixmap, spin_angle).kind
       \in {"error_text", "info_text"}
       => Draw(mode, message, message_pixmap, spin_angle).text # None
  /\ Draw(mode, message, message_pixmap, spin_angle).kind = "pixmap"
       => Draw(mode, message, message_pixmap, spin_angle).pixmap # None
  /\ painted.kind \in {"error_text", "info_text"} => painted.text # None
  /\ painted.kind = "pixmap" => painted.pixmap # None

\* inside the first show_message(): the message is set, the mode not yet
C15_Witness ==
  /\ pc > 0
  /\ call.name = "show_message"
  /\ Body(call.name)[pc] = "mode"
  /\ prev_mode = MODE_OFF
  /\ mode = MODE_OFF
  /\ message = call.arg
  /\ message_pixmap = None

\* C16: after any start_spin() a tick, with its repaint, eventually follows
\* unless a show_*() or hide() call leaves Spinning mode first; also when
\* start_spin() is called again while the overlay is spinning.
C16_SpinKeepsAdvancing ==
  (step = "start_spin") ~> (step = "on_animation" \/ mode # MODE_SPIN)

\* C17: only the resize listener changes the overlay's size; construction,
\* the public calls, ticks and renders leave it, so it is the size the widget
\* was created with until the first Resize notification is processed, also
\* when the overlay is shown before, and the parent's size whenever a
\* notification has been processed and none is outstanding.
C17_SizeSetOnlyByResizeListener ==
  /\ [][size' # size => (step' = "eventFilter" /\ filtered'.type = "Resize"
                          /\ size' = parent_size')]_vars
  /\ [](size = InitialSize \/ pending_resizes > 0 \/ size = parent_size)

\* the overlay made visible before any Resize notification: not the parent's size
C17_Witness ==
  /\ step = "start_spin"
  /\ visible
  /\ size = InitialSize
  /\ size # parent_size

TypeOK ==
  /\ mode \in Modes
  /\ timer_interval \in {NoInterval, TIMER_INTERVAL}
  /\ visible \in BOOLEAN
  /\ spin_angle \in Int
  /\ message \in Texts \cup {None}
  /\ message_pixmap \in Pixmaps \cup {None}
====
